---- MODULE Spec2Model ----
(***************************************************************************)
(* Model of StripeController.webhook                                       *)
(* (packages/payments-plugin/src/stripe/stripe.controller.ts).             *)
(*                                                                         *)
(* Each request task runs the async handler.  The handler runs without     *)
(* interruption between two awaits, so one action models one such segment: *)
(*   Webhook            lines 41-76  (header check, verification,          *)
(*                                    classification)                      *)
(*   CreateContext      lines 78, 114-124                                  *)
(*   TransitionToState  lines 80-92                                        *)
(*   GetPaymentMethod   lines 94, 126-136                                  *)
(*   AddPaymentToOrder  lines 96-111                                       *)
(* The collaborators (StripeService, ChannelService, OrderService) are not *)
(* part of the controller; they are modelled from their contracts.         *)
(***************************************************************************)
EXTENDS Integers, Sequences, FiniteSets, TLC

\* ------------------------------------------------------------------ bounds

\* Total number of deliveries accepted over one run.
MaxDeliveries == 3

\* Request tasks that can be in flight at the same time.
Tasks == {"r1", "r2"}

\* ------------------------------------------------------------ program text

BAD_REQUEST == 400

\* Status of a response on which the handler has called neither status() nor
\* send().
Unsent == 0

missingHeaderErrorMessage == "Missing stripe-signature header"
signatureErrorMessage == "Error verifying Stripe webhook signature"
noPaymentIntentErrorMessage == "No payment intent in the event payload"

PaymentFailedType == "payment_intent.payment_failed"
PaymentSucceededType == "payment_intent.succeeded"
\* Another state requested from the OrderService.
TargetStateSettled == "PaymentSettled"

TargetState == "ArrangingPayment"

\* stripePaymentMethodHandler.code
stripeHandlerCode == "stripe"

\* The value of an absent header, an absent metadata key, an unset local.
Undefined == "undefined"

\* ------------------------------------------------------------- environment

\* Channels known to the ChannelService.
ActiveChannels == {"t1", "t2"}

\* PaymentMethod rows visible in each channel, in repository order.  Channel
\* t2 has no method whose handler is the Stripe handler.
PaymentMethodsOf(channel) ==
    IF channel = "t1"
    THEN << [code |-> "standard-payment", handler |-> "dummy-handler"],
            [code |-> "stripe-payment", handler |-> stripeHandlerCode] >>
    ELSE << [code |-> "standard-payment", handler |-> "dummy-handler"] >>

OrderIds == {"o1", "o2", "o3"}

InitialOrderState(o) == IF o = "o3" THEN "Cancelled" ELSE "AddingItems"

\* An event as constructEventFromPayload returns it for a verified body.
\* hasObject is whether event.data.object is set; id, channelToken and orderId
\* are paymentIntent.id and the metadata keys (Undefined when the key is
\* missing).
Event(type, hasObject, id, channelToken, orderId) ==
    [type |-> type, hasObject |-> hasObject, id |-> id,
     channelToken |-> channelToken, orderId |-> orderId]

SucceededBodies ==
    { Event(PaymentSucceededType, TRUE, "pi_1", "t1", "o1"),
      Event(PaymentSucceededType, TRUE, "pi_2", "t1", "o1"),
      Event(PaymentSucceededType, TRUE, "pi_3", "t1", "o2"),
      Event(PaymentSucceededType, TRUE, "pi_4", "t1", "o3"),
      Event(PaymentSucceededType, TRUE, "pi_1", "t2", "o1"),
      Event(PaymentSucceededType, TRUE, "pi_1", "tX", "o1"),
      Event(PaymentSucceededType, TRUE, "pi_1", Undefined, "o1"),
      Event(PaymentSucceededType, TRUE, "pi_1", "t1", Undefined),
      Event(PaymentSucceededType, TRUE, "pi_1", Undefined, Undefined) }

OtherBodies ==
    { Event(PaymentFailedType, TRUE, "pi_1", "t1", "o1"),
      Event("charge.refunded", TRUE, "pi_1", "t1", "o1") }

NoObjectBodies ==
    { Event(t, FALSE, Undefined, Undefined, Undefined) :
        t \in {PaymentSucceededType, PaymentFailedType, "charge.refunded"} }

Bodies == SucceededBodies \cup OtherBodies \cup NoObjectBodies

\* The stripe-signature header: absent, present and empty, present and not
\* matching the body, present and matching.
Signatures == {Undefined, "", "t=1,v1=bad", "t=1,v1=good"}

Requests ==
    { [signature |-> "t=1,v1=good", rawBody |-> b] : b \in Bodies } \cup
    { [signature |-> s, rawBody |-> Event(PaymentSucceededType, TRUE, "pi_1", "t1", "o1")] :
        s \in Signatures \ {"t=1,v1=good"} }

NoRequest == [signature |-> Undefined, rawBody |-> Event(Undefined, FALSE, Undefined, Undefined, Undefined)]

\* ------------------------------------------------------------------- state

VARIABLES
    pc,          \* per task: position of the handler
    request,     \* per task: the delivery being handled
    ctx,         \* per task: channel of the RequestContext, Undefined before
    outcome,     \* per task: how the handler ended
    response,    \* per task: HTTP status the handler sent, Unsent if none
    log,         \* per task: Logger calls, in order
    calls,       \* per task: collaborator calls, in order
    paymentMethod, \* per task: code of the PaymentMethod found, Undefined before
    priorDone,   \* per task: tasks whose handler had ended when this began
    orderState,  \* per order: state of the order (held by the OrderService)
    payments,    \* per order: payment records (held by the OrderService)
    handled      \* number of deliveries accepted so far

vars == << pc, request, ctx, outcome, response, log, calls, paymentMethod, priorDone,
           orderState, payments, handled >>

Init ==
    /\ pc = [d \in Tasks |-> "idle"]
    /\ request = [d \in Tasks |-> NoRequest]
    /\ ctx = [d \in Tasks |-> Undefined]
    /\ outcome = [d \in Tasks |-> "none"]
    /\ response = [d \in Tasks |-> Unsent]
    /\ log = [d \in Tasks |-> << >>]
    /\ calls = [d \in Tasks |-> << >>]
    /\ paymentMethod = [d \in Tasks |-> Undefined]
    /\ priorDone = [d \in Tasks |-> {}]
    /\ orderState = [o \in OrderIds |-> InitialOrderState(o)]
    /\ payments = [o \in OrderIds |-> << >>]
    /\ handled = 0

\* ------------------------------------------------------------ collaborators

\* StripeService.constructEventFromPayload: returns the event of the body when
\* the signature matches the body under the webhook secret, throws otherwise.
Verifies(rawBody, signature) == signature = "t=1,v1=good"

\* ChannelService.getChannelFromToken: the channel of the token; throws when no
\* channel has it.
ChannelExists(token) == token \in ActiveChannels

\* OrderService.transitionToState: whether the order's state machine lets an
\* order in state from go to state to.  Repeating the transition on an order
\* already in the target state is accepted.
CanTransition(from, to) ==
    /\ to = "ArrangingPayment"
    /\ from \in {"AddingItems", "ArrangingPayment"}

\* OrderService.transitionToState: the results it can give for order o.  For
\* an id that names no order the service either reports an error result or
\* throws.
TransitionResults(states, o, to) ==
    IF o \notin OrderIds
    THEN {"OrderStateTransitionError", "EntityNotFoundError"}
    ELSE IF CanTransition(states[o], to)
         THEN {"Order"}
         ELSE {"OrderStateTransitionError"}

\* Number of payment records of a list that carry payment intent id.
CountIntent(list, id) ==
    Cardinality({ i \in 1..Len(list) : list[i].paymentIntentId = id })

\* OrderService.addPaymentToOrder: accepted only for an order that is
\* arranging payment and has no payment recorded for the intent.
AttachAccepted(states, pays, o, id) ==
    /\ o \in OrderIds
    /\ states[o] = "ArrangingPayment"
    /\ CountIntent(pays[o], id) = 0

\* OrderService.addPaymentToOrder: the results it can give.
AttachResults(states, pays, o, id) ==
    IF AttachAccepted(states, pays, o, id) THEN {"Order"} ELSE {"PaymentFailedError"}

\* State of an order after a payment was added: the payment may or may not
\* settle the order.
StatesAfterPayment == {"ArrangingPayment", "PaymentSettled"}

\* ------------------------------------------------------------- the handler

\* A collaborator call: the operation, the context and order id passed (when
\* the operation takes them), its other arguments, and what it gave back.
Call(op, c, o, a, b, result) ==
    [op |-> op, ctx |-> c, orderId |-> o, arg |-> a, arg2 |-> b, result |-> result]

Entry(level, message) == [level |-> level, message |-> message]

\* JavaScript truthiness of a string-or-undefined value.
Truthy(v) == v \notin {Undefined, ""}

\* The stage did not end the handler.
Proceed == [stop |-> FALSE, outcome |-> "none", status |-> Unsent, log |-> << >>]

\* The stage ended the handler: it logged, possibly sent a status, returned.
Stop(oc, status, level, message) ==
    [stop |-> TRUE, outcome |-> oc, status |-> status, log |-> << Entry(level, message) >>]

\* The header test left out: every request goes on to verification.
CheckSignatureSkipped(signature) == Proceed

\* if (!signature) { Logger.error; response.status(400).send; return }
CheckSignature(signature) ==
    IF ~Truthy(signature)
    THEN Stop("rejected-missing-signature", BAD_REQUEST, "error", missingHeaderErrorMessage)
    ELSE Proceed

\* The catch block without its return: the handler goes on with no event.
CheckVerificationNoReturn(verified) == Proceed

\* try { event = constructEventFromPayload(...) } catch { Logger.error;
\* response.status(400).send; return }
CheckVerification(verified) ==
    IF ~verified
    THEN Stop("rejected-bad-signature", BAD_REQUEST, "error", signatureErrorMessage)
    ELSE Proceed

\* if (!paymentIntent) { Logger.error; response.status(400).send; return }
CheckPaymentIntent(event) ==
    IF ~event.hasObject
    THEN Stop("rejected-malformed", BAD_REQUEST, "error", noPaymentIntentErrorMessage)
    ELSE Proceed

\* The payment-failed branch left out.
CheckPaymentFailedSkipped(event) == Proceed

\* if (event.type === 'payment_intent.payment_failed') { Logger.warn; return }
CheckPaymentFailed(event) ==
    IF event.type = PaymentFailedType
    THEN Stop("ignored-payment-failed", Unsent, "warn", "Payment for order failed")
    ELSE Proceed

\* The event-type branch left out: every remaining type is handled as succeeded.
CheckEventTypeSkipped(event) == Proceed

\* if (event.type !== 'payment_intent.succeeded') { Logger.info; return }
CheckEventType(event) ==
    IF event.type # PaymentSucceededType
    THEN Stop("ignored-event-type", Unsent, "info", "Received status update for order")
    ELSE Proceed

\* The handler left by an exception it does not catch.
Thrown(error) == [stop |-> TRUE, outcome |-> error, status |-> Unsent, log |-> << >>]

Errors == {"TypeError", "ChannelNotFoundError", "EntityNotFoundError", "InternalServerError"}

\* The event type classified before the payment object is tested.
ClassifyTypeFirst(req) ==
    LET h == CheckSignature(req.signature) IN
    IF h.stop THEN [r |-> h, calls |-> << >>] ELSE
    LET verified == Verifies(req.rawBody, req.signature)
        c == << Call("constructEventFromPayload", Undefined, Undefined, req.signature, Undefined,
                     IF verified THEN "Event" ELSE "Error") >>
        v == CheckVerification(verified) IN
    IF v.stop THEN [r |-> v, calls |-> c] ELSE
    IF ~verified THEN [r |-> Thrown("TypeError"), calls |-> c] ELSE
    LET event == req.rawBody
        f == CheckPaymentFailed(event) IN
    IF f.stop THEN [r |-> f, calls |-> c] ELSE
    LET t == CheckEventType(event) IN
    IF t.stop THEN [r |-> t, calls |-> c] ELSE
    LET p == CheckPaymentIntent(event) IN
    IF p.stop THEN [r |-> p, calls |-> c] ELSE
    [r |-> Proceed, calls |-> c]

\* The handler up to its first await: the stages in the order of the code,
\* the first that stops ends the handler.  r is the result, calls the
\* collaborator calls made.
Classify(req) ==
    LET h == CheckSignature(req.signature) IN
    IF h.stop THEN [r |-> h, calls |-> << >>] ELSE
    LET verified == Verifies(req.rawBody, req.signature)
        c == << Call("constructEventFromPayload", Undefined, Undefined, req.signature, Undefined,
                     IF verified THEN "Event" ELSE "Error") >>
        v == CheckVerification(verified) IN
    IF v.stop THEN [r |-> v, calls |-> c] ELSE
    \* event is still null when verification threw: event.data throws
    IF ~verified THEN [r |-> Thrown("TypeError"), calls |-> c] ELSE
    LET event == req.rawBody
        p == CheckPaymentIntent(event) IN
    IF p.stop THEN [r |-> p, calls |-> c] ELSE
    \* paymentIntent is undefined: reading its metadata throws
    IF ~event.hasObject THEN [r |-> Thrown("TypeError"), calls |-> c] ELSE
    LET f == CheckPaymentFailed(event) IN
    IF f.stop THEN [r |-> f, calls |-> c] ELSE
    LET t == CheckEventType(event) IN
    IF t.stop THEN [r |-> t, calls |-> c] ELSE
    [r |-> Proceed, calls |-> c]

\* A delivery arrives at a task that is free and the handler runs to its first
\* await (or to its end).
Webhook(d, req) ==
    /\ pc[d] \in {"idle", "done"}
    /\ handled < MaxDeliveries
    /\ handled' = handled + 1
    /\ LET c == Classify(req) IN
        /\ request' = [request EXCEPT ![d] = req]
        /\ outcome' = [outcome EXCEPT ![d] = c.r.outcome]
        /\ response' = [response EXCEPT ![d] = c.r.status]
        /\ log' = [log EXCEPT ![d] = c.r.log]
        /\ calls' = [calls EXCEPT ![d] = c.calls]
        /\ pc' = [pc EXCEPT ![d] = IF c.r.stop THEN "done" ELSE "createContext"]
    /\ ctx' = [ctx EXCEPT ![d] = Undefined]
    /\ paymentMethod' = [paymentMethod EXCEPT ![d] = Undefined]
    /\ priorDone' = [e \in Tasks |->
                        IF e = d THEN { x \in Tasks \ {d} : pc[x] = "done" }
                        ELSE priorDone[e] \ {d}]
    /\ UNCHANGED << orderState, payments >>

\* The handler of task d ends with result r (a Stop or a Thrown).
End(d, r) ==
    /\ pc' = [pc EXCEPT ![d] = "done"]
    /\ outcome' = [outcome EXCEPT ![d] = r.outcome]
    /\ log' = [log EXCEPT ![d] = log[d] \o r.log]

\* The handler of task d goes on to its next await.
Goto(d, label) ==
    /\ pc' = [pc EXCEPT ![d] = label]
    /\ UNCHANGED << outcome, log >>

\* const ctx = await this.createContext(channelToken)
CreateContext(d) ==
    /\ pc[d] = "createContext"
    /\ LET channelToken == request[d].rawBody.channelToken IN
        /\ calls' = [calls EXCEPT ![d] =
                        Append(@, Call("getChannelFromToken", Undefined, Undefined, channelToken, Undefined,
                                       IF ChannelExists(channelToken) THEN "Channel"
                                       ELSE "ChannelNotFoundError"))]
        /\ IF ChannelExists(channelToken)
           THEN /\ ctx' = [ctx EXCEPT ![d] = channelToken]
                /\ Goto(d, "transitionToState")
           ELSE /\ End(d, Thrown("ChannelNotFoundError"))
                /\ UNCHANGED ctx
    /\ UNCHANGED << request, response, paymentMethod, priorDone, orderState, payments, handled >>

\* The order id kept in a field of the controller that every arriving
\* delivery overwrites: a handler reads the id of the other delivery.
OrderIdOfShared(d) ==
    LET others == { e \in Tasks \ {d} : pc[e] # "idle" }
    IN IF others = {} THEN request[d].rawBody.orderId
       ELSE request[CHOOSE e \in others : TRUE].rawBody.orderId

\* const { metadata: { channelToken, orderCode, orderId } = {} } = paymentIntent
\* orderId is a local of the handler of task d.
OrderIdOf(d) == request[d].rawBody.orderId

\* The instanceof test never matching.
IsTransitionErrorNever(result) == FALSE

\* transitionToStateResult instanceof OrderStateTransitionError
IsTransitionError(result) == result = "OrderStateTransitionError"

\* The transition-error branch without its return.
CheckTransitionNoReturn(result) == Proceed

\* if (transitionToStateResult instanceof OrderStateTransitionError)
\* { Logger.error; return }
CheckTransition(result) ==
    IF IsTransitionError(result)
    THEN Stop("transition-failed", Unsent, "error",
              "Error transitioning order to ArrangingPayment state")
    ELSE Proceed

\* await this.orderService.transitionToState(ctx, orderId, 'ArrangingPayment')
\* and the test of its result
TransitionToState(d) ==
    /\ pc[d] = "transitionToState"
    /\ LET orderId == OrderIdOf(d) IN
       \E result \in TransitionResults(orderState, orderId, TargetState) :
        /\ calls' = [calls EXCEPT ![d] =
                        Append(@, Call("transitionToState", ctx[d], orderId, TargetState, Undefined, result))]
        /\ orderState' = IF result = "Order"
                         THEN [orderState EXCEPT ![orderId] = TargetState]
                         ELSE orderState
        /\ IF result \in Errors
           THEN End(d, Thrown(result))
           ELSE LET t == CheckTransition(result) IN
                IF t.stop THEN End(d, t) ELSE Goto(d, "getPaymentMethod")
    /\ UNCHANGED << request, ctx, response, paymentMethod, priorDone, payments, handled >>

\* The first method taken without its handler being tested.
FindMethodAny(methods, handlerCode) == IF Len(methods) = 0 THEN 0 ELSE 1

\* Array.prototype.find: index of the first method whose handler has the
\* code, 0 when there is none.
FindMethod(methods, handlerCode) ==
    LET I == { i \in 1..Len(methods) : methods[i].handler = handlerCode }
    IN IF I = {} THEN 0 ELSE CHOOSE i \in I : \A j \in I : i <= j

\* The test of the lookup's result left out.
CheckMethodNoThrow(i) == Proceed

\* if (!method) { throw new InternalServerError(...) }
CheckMethod(i) == IF i = 0 THEN Thrown("InternalServerError") ELSE Proceed

\* const paymentMethod = await this.getPaymentMethod(ctx)
GetPaymentMethod(d) ==
    /\ pc[d] = "getPaymentMethod"
    /\ LET methods == PaymentMethodsOf(ctx[d])
           i == FindMethod(methods, stripeHandlerCode) IN
        /\ calls' = [calls EXCEPT ![d] =
                        Append(@, Call("find", ctx[d], Undefined, "PaymentMethod", Undefined,
                                       IF i = 0 THEN Undefined ELSE "PaymentMethod"))]
        /\ LET m == CheckMethod(i) IN
           IF m.stop
           THEN /\ End(d, m)
                /\ UNCHANGED paymentMethod
           ELSE /\ paymentMethod' = [paymentMethod EXCEPT ![d] =
                                        IF i = 0 THEN Undefined ELSE methods[i].code]
                /\ Goto(d, "addPaymentToOrder")
    /\ UNCHANGED << request, ctx, response, priorDone, orderState, payments, handled >>

\* The instanceof test always matching.
IsOrderAlways(result) == TRUE

\* addPaymentToOrderResult instanceof Order
IsOrder(result) == result = "Order"

\* The error branch without its return: the final Logger.info is reached.
CheckPaymentFallsThrough(result) ==
    Stop("succeeded", Unsent, "info", "Stripe payment intent id added to order")

\* An error result of addPaymentToOrder thrown instead of logged.
CheckPaymentThrows(result) ==
    IF ~IsOrder(result)
    THEN Thrown("InternalServerError")
    ELSE Stop("succeeded", Unsent, "info", "Stripe payment intent id added to order")

\* if (!(addPaymentToOrderResult instanceof Order)) { Logger.error; return }
\* Logger.info(...)
CheckPayment(result) ==
    IF ~IsOrder(result)
    THEN Stop("payment-attach-failed", Unsent, "error", "Error adding payment to order")
    ELSE Stop("succeeded", Unsent, "info", "Stripe payment intent id added to order")

\* await this.orderService.addPaymentToOrder(ctx, orderId, {...}), the test
\* of its result and the final log
AddPaymentToOrder(d) ==
    /\ pc[d] = "addPaymentToOrder"
    /\ LET orderId == OrderIdOf(d)
           id == request[d].rawBody.id IN
       \* paymentMethod.code throws when paymentMethod is undefined
       IF paymentMethod[d] = Undefined
       THEN /\ End(d, Thrown("TypeError"))
            /\ UNCHANGED << calls, orderState, payments >>
       ELSE
       \E result \in AttachResults(orderState, payments, orderId, id) :
        /\ calls' = [calls EXCEPT ![d] =
                        Append(@, Call("addPaymentToOrder", ctx[d], orderId, paymentMethod[d], id, result))]
        /\ IF result = "Order"
           THEN /\ payments' = [payments EXCEPT ![orderId] =
                                  Append(@, [method |-> paymentMethod[d], paymentIntentId |-> id])]
                /\ \E s \in StatesAfterPayment : orderState' = [orderState EXCEPT ![orderId] = s]
           ELSE UNCHANGED << orderState, payments >>
        /\ End(d, CheckPayment(result))
    /\ UNCHANGED << request, ctx, response, paymentMethod, priorDone, handled >>

Next ==
    \/ \E d \in Tasks, req \in Requests : Webhook(d, req)
    \/ \E d \in Tasks : CreateContext(d)
    \/ \E d \in Tasks : TransitionToState(d)
    \/ \E d \in Tasks : GetPaymentMethod(d)
    \/ \E d \in Tasks : AddPaymentToOrder(d)

Spec == Init /\ [][Next]_vars

TypeOK ==
    /\ pc \in [Tasks -> {"idle", "createContext", "transitionToState",
                         "getPaymentMethod", "addPaymentToOrder", "done"}]
    /\ \A d \in Tasks : response[d] \in {Unsent, BAD_REQUEST}
    /\ handled \in 0..MaxDeliveries

\* ------------------------------------------------------------- properties

\* Names of the collaborator operations task d has called.
Ops(d) == { calls[d][i].op : i \in 1..Len(calls[d]) }

\* Everything behind verification and classification.
Downstream == {"getChannelFromToken", "transitionToState", "find", "addPaymentToOrder"}

\* The Order Gateway operations that change an order.
Mutating == {"transitionToState", "addPaymentToOrder"}

\* Task d holds a delivery (it is handling it or has handled it).
Holds(d) == pc[d] # "idle"

\* The delivery of task d is signed correctly and carries a payment object.
VerifiedWithObject(d) ==
    /\ Holds(d)
    /\ Verifies(request[d].rawBody, request[d].signature)
    /\ request[d].rawBody.hasObject

\* C1: a delivery without a signature header ends rejected as
\* missing-signature with status 400, and no collaborator at all was called
\* for it, signature verification included.
C1_MissingSignatureRejected ==
    \A d \in Tasks :
        (Holds(d) /\ request[d].signature = Undefined) =>
            /\ pc[d] = "done"
            /\ outcome[d] = "rejected-missing-signature"
            /\ response[d] = BAD_REQUEST
            /\ calls[d] = << >>

C1_Witness ==
    \E d \in Tasks :
        /\ pc[d] = "done"
        /\ request[d].signature = Undefined
        /\ outcome[d] = "rejected-missing-signature"

\* Signature verification was called for the delivery of task d and threw.
VerificationRaised(d) ==
    /\ Holds(d)
    /\ \E i \in 1..Len(calls[d]) :
          /\ calls[d][i].op = "constructEventFromPayload"
          /\ calls[d][i].result = "Error"

\* C2: a delivery whose signature header is there and for which verification
\* throws ends rejected as bad-signature with status 400, and neither tenant
\* resolution, nor the transition, nor the handler lookup, nor the attach was
\* called for it.
C2_BadSignatureRejected ==
    \A d \in Tasks :
        VerificationRaised(d) =>
            /\ pc[d] = "done"
            /\ outcome[d] = "rejected-bad-signature"
            /\ response[d] = BAD_REQUEST
            /\ Ops(d) \cap Downstream = {}

C2_Witness ==
    \E d \in Tasks :
        /\ pc[d] = "done"
        /\ request[d].signature = "t=1,v1=bad"
        /\ VerificationRaised(d)
        /\ outcome[d] = "rejected-bad-signature"

\* The delivery of task d is a verified payment-failed event with an object.
IsPaymentFailed(d) ==
    /\ VerifiedWithObject(d)
    /\ request[d].rawBody.type = PaymentFailedType

\* The step leaves every order as it was.
OrdersUnchanged == orderState' = orderState /\ payments' = payments

\* The step is a step of no task other than d.
OnlyStepOf(d) == \A e \in Tasks \ {d} : pc'[e] = pc[e] /\ calls'[e] = calls[e]

\* C3: a verified payment-failed event that carries a payment object ends
\* ignored (payment failed), neither the transition nor the attach is called
\* for it, and no step of its handling changes any order's state or payments.
C3_PaymentFailedIgnored ==
    /\ [](\A d \in Tasks :
            IsPaymentFailed(d) =>
                /\ pc[d] = "done"
                /\ outcome[d] = "ignored-payment-failed"
                /\ Ops(d) \cap Mutating = {})
    /\ [][\A d \in Tasks :
            (IsPaymentFailed(d)' /\ OnlyStepOf(d)) => OrdersUnchanged]_vars

C3_Witness ==
    \E d \in Tasks :
        /\ pc[d] = "done"
        /\ IsPaymentFailed(d)
        /\ outcome[d] = "ignored-payment-failed"
        /\ \E o \in OrderIds : orderState[o] = "ArrangingPayment"

\* The delivery of task d is a verified event with an object whose type is
\* neither the succeeded nor the failed tag.
IsOtherType(d) ==
    /\ VerifiedWithObject(d)
    /\ request[d].rawBody.type \notin {PaymentSucceededType, PaymentFailedType}

\* C4: a verified event of any other type that carries a payment object ends
\* ignored (event type), is not answered with a rejection, and no downstream
\* call is made for it.
C4_OtherTypeIgnored ==
    \A d \in Tasks :
        IsOtherType(d) =>
            /\ pc[d] = "done"
            /\ outcome[d] = "ignored-event-type"
            /\ response[d] # BAD_REQUEST
            /\ Ops(d) \cap Downstream = {}

C4_Witness ==
    \E d \in Tasks :
        /\ pc[d] = "done"
        /\ IsOtherType(d)
        /\ request[d].rawBody.type = "charge.refunded"
        /\ outcome[d] = "ignored-event-type"

\* The delivery of task d is a verified succeeded event with an object.
IsSucceeded(d) ==
    /\ VerifiedWithObject(d)
    /\ request[d].rawBody.type = PaymentSucceededType

\* The metadata of the delivery lacks the channel token or the order id.
LacksCorrelation(d) ==
    \/ request[d].rawBody.channelToken = Undefined
    \/ request[d].rawBody.orderId = Undefined

\* C5: a verified succeeded event whose metadata lacks the tenant token or the
\* order identifier is rejected as malformed, and tenant resolution, the
\* transition and the attach are not called for it.
C5_MissingCorrelationRejected ==
    \A d \in Tasks :
        (IsSucceeded(d) /\ LacksCorrelation(d) /\ pc[d] = "done") =>
            /\ outcome[d] = "rejected-malformed"
            /\ Ops(d) \cap {"getChannelFromToken", "transitionToState", "addPaymentToOrder"} = {}

\* Task e handled, after task d had ended with succeeded, a delivery identical
\* to the validly signed succeeded delivery of d.
Redelivered(d, e) ==
    /\ d # e
    /\ pc[d] = "done" /\ pc[e] = "done"
    /\ d \in priorDone[e]
    /\ IsSucceeded(d)
    /\ request[e] = request[d]
    /\ outcome[d] = "succeeded"

\* Outcomes that end the handler by a return, after a log entry.
NonFatal == {"succeeded", "transition-failed", "payment-attach-failed"}

\* C6: when a validly signed succeeded delivery has ended succeeded and the
\* identical delivery is handled again after it, the second run ends in a
\* logged outcome that is no thrown error, the order holds exactly one payment
\* record for the payment intent, and neither run ended by a thrown error.
C6_RedeliveryIdempotent ==
    \A d, e \in Tasks :
        Redelivered(d, e) =>
            /\ outcome[e] \in NonFatal
            /\ Len(log[e]) > 0
            /\ outcome[d] \notin Errors /\ outcome[e] \notin Errors
            /\ CountIntent(payments[request[d].rawBody.orderId], request[d].rawBody.id) = 1

C6_Witness ==
    \E d, e \in Tasks :
        /\ Redelivered(d, e)
        /\ outcome[e] = "payment-attach-failed"
        /\ "addPaymentToOrder" \in Ops(e)

\* C7: the attach is called only after, in the same delivery, the transition
\* for the same order was called and gave back an order; a transition that
\* gives back a transition error is the last call of its delivery, which ends
\* transition-failed with neither the handler lookup nor the attach called.
C7_AttachOnlyAfterTransition ==
    \A d \in Tasks : \A i \in 1..Len(calls[d]) :
        /\ calls[d][i].op = "addPaymentToOrder" =>
              \E j \in 1..(i - 1) :
                  /\ calls[d][j].op = "transitionToState"
                  /\ calls[d][j].orderId = calls[d][i].orderId
                  /\ calls[d][j].result = "Order"
        /\ (calls[d][i].op = "transitionToState"
                /\ calls[d][i].result = "OrderStateTransitionError") =>
              /\ i = Len(calls[d])
              /\ pc[d] = "done"
              /\ outcome[d] = "transition-failed"
              /\ Ops(d) \cap {"find", "addPaymentToOrder"} = {}

C7_Witness ==
    \E d, e \in Tasks :
        /\ pc[d] = "done" /\ outcome[d] = "transition-failed"
        /\ calls[d][Len(calls[d])].result = "OrderStateTransitionError"
        /\ pc[e] = "done" /\ outcome[e] = "succeeded"
        /\ "addPaymentToOrder" \in Ops(e)

\* The operations task d has called, in order.
OpSeq(d) == [i \in 1..Len(calls[d]) |-> calls[d][i].op]

\* The mutating Order Gateway calls of task d, in order.
MutatingSeq(d) == SelectSeq(OpSeq(d), LAMBDA op : op \in Mutating)

\* Results after which the handler goes on to its next stage.
GoOnResults == {"Event", "Channel", "Order", "PaymentMethod"}

\* No call of task d follows a call that gave an error or nothing back.
NoCallAfterFailure(d) ==
    \A i \in 1..(Len(calls[d]) - 1) : calls[d][i].result \in GoOnResults

\* The calls a delivery with the outcome has made when every stage after the
\* one that ended it was left out.
StagesOf(oc) ==
    LET all == << "constructEventFromPayload", "getChannelFromToken", "transitionToState",
                  "find", "addPaymentToOrder" >>
    IN CASE oc = "rejected-missing-signature" -> SubSeq(all, 1, 0)
         [] oc \in {"rejected-bad-signature", "rejected-malformed", "ignored-payment-failed",
                    "ignored-event-type", "TypeError"} -> SubSeq(all, 1, 1)
         [] oc = "ChannelNotFoundError" -> SubSeq(all, 1, 2)
         [] oc \in {"transition-failed", "EntityNotFoundError"} -> SubSeq(all, 1, 3)
         [] oc = "InternalServerError" -> SubSeq(all, 1, 4)
         [] OTHER -> all

\* C8 as stated: a delivery makes 0 or 2 mutating Order Gateway calls, never
\* exactly 1, and no stage runs after the one that ended the delivery.
C8_ZeroOrTwoCalls ==
    \A d \in Tasks :
        pc[d] = "done" =>
            /\ Len(MutatingSeq(d)) \in {0, 2}
            /\ OpSeq(d) = StagesOf(outcome[d])
            /\ NoCallAfterFailure(d)

\* C8 amended: a delivery makes 0, 1 or 2 mutating Order Gateway calls, the
\* transition first and the attach second; it makes exactly 1 when it ended
\* after the transition and before the attach (transition-failed, the
\* transition throwing, or no Stripe payment method found); and no stage runs
\* after the one that ended the delivery.
C8_ZeroOneOrTwoCalls ==
    \A d \in Tasks :
        /\ MutatingSeq(d) \in { << >>, << "transitionToState" >>,
                                << "transitionToState", "addPaymentToOrder" >> }
        /\ NoCallAfterFailure(d)
        /\ pc[d] = "done" =>
              /\ OpSeq(d) = StagesOf(outcome[d])
              /\ Len(MutatingSeq(d)) = 1 <=>
                    outcome[d] \in {"transition-failed", "EntityNotFoundError", "InternalServerError"}

C8_Witness ==
    \E d \in Tasks :
        /\ pc[d] = "done"
        /\ outcome[d] = "transition-failed"
        /\ MutatingSeq(d) = << "transitionToState" >>

Is2xx(status) == status >= 200 /\ status < 300
Is4xx(status) == status >= 400 /\ status < 500

\* C9: a delivery that ended ignored (payment failed, other event type) or in
\* a domain error (transition-failed, payment-attach-failed) has been answered
\* with a 2xx status, and a 4xx status is sent only for a rejection at
\* signature or payload validation.
C9_SuccessResponseSent ==
    \A d \in Tasks :
        pc[d] = "done" =>
            /\ outcome[d] \in {"ignored-payment-failed", "ignored-event-type",
                               "transition-failed", "payment-attach-failed"} =>
                  Is2xx(response[d])
            /\ Is4xx(response[d]) =>
                  outcome[d] \in {"rejected-missing-signature", "rejected-bad-signature",
                                  "rejected-malformed"}

\* The handler lookup of task d found no PaymentMethod with the Stripe handler.
LookupFoundNone(d) ==
    \E i \in 1..Len(calls[d]) : calls[d][i].op = "find" /\ calls[d][i].result = Undefined

\* C10: a succeeded delivery whose tenant has no PaymentMethod with the Stripe
\* handler ends in the handler-not-configured error (the InternalServerError
\* of getPaymentMethod), which is neither transition-failed nor
\* payment-attach-failed, the outcome is logged, and the attach is not called.
C10_HandlerNotConfiguredLogged ==
    \A d \in Tasks :
        (pc[d] = "done" /\ IsSucceeded(d) /\ LookupFoundNone(d)) =>
            /\ outcome[d] = "InternalServerError"
            /\ outcome[d] \notin {"transition-failed", "payment-attach-failed"}
            /\ Len(log[d]) > 0
            /\ "addPaymentToOrder" \notin Ops(d)

\* C11: a succeeded delivery whose tenant token maps to no active channel ends
\* in the typed outcome unknown-tenant, with a log entry and with neither the
\* transition nor the attach called; and no delivery ends by an error thrown
\* out of tenant resolution.
C11_UnknownTenantTyped ==
    \A d \in Tasks :
        /\ outcome[d] # "ChannelNotFoundError"
        /\ (pc[d] = "done" /\ IsSucceeded(d)
                /\ ~ChannelExists(request[d].rawBody.channelToken)) =>
              /\ outcome[d] = "unknown-tenant"
              /\ Len(log[d]) > 0
              /\ Ops(d) \cap Mutating = {}

\* The calls of a delivery with tenant token t, order id o and payment intent
\* id p, signed with sig, in which every collaborator succeeds and the attach
\* is given method as the payment method.
HappyCalls(sig, t, o, p, method) ==
    << Call("constructEventFromPayload", Undefined, Undefined, sig, Undefined, "Event"),
       Call("getChannelFromToken", Undefined, Undefined, t, Undefined, "Channel"),
       Call("transitionToState", t, o, "ArrangingPayment", Undefined, "Order"),
       Call("find", t, Undefined, "PaymentMethod", Undefined, "PaymentMethod"),
       Call("addPaymentToOrder", t, o, method, p, "Order") >>

\* The codes of the PaymentMethod that comes first in channel t among those
\* whose handler is the Stripe handler (at most one code).
StripeMethodCodes(t) ==
    LET methods == PaymentMethodsOf(t) IN
    { methods[i].code : i \in { k \in 1..Len(methods) :
                                  /\ methods[k].handler = stripeHandlerCode
                                  /\ \A j \in 1..(k - 1) : methods[j].handler # stripeHandlerCode } }

\* Every call task d has made gave back a success.
AllCallsSucceeded(d) ==
    \A i \in 1..Len(calls[d]) : calls[d][i].result \in GoOnResults

C13_EveryOutcomeLogged ==
    \A d \in Tasks : pc[d] = "done" => Len(log[d]) >= 1

\* The last call of task d is an attach that gave back an error.
AttachFailed(d) ==
    /\ Len(calls[d]) > 0
    /\ calls[d][Len(calls[d])].op = "addPaymentToOrder"
    /\ calls[d][Len(calls[d])].result # "Order"

\* Number of calls of operation op task d has made.
CountOp(d, op) == Cardinality({ i \in 1..Len(calls[d]) : calls[d][i].op = op })

\* C14: when the attach gives back an error, the delivery ends
\* payment-attach-failed with the attach as its last call and the single
\* transition of step 7 as its only other Order Gateway call (no rollback
\* transition), and the step leaves every order's state and payments as they
\* were, so an order that was in ArrangingPayment stays there.
C14_AttachFailureNoRollback ==
    /\ [](\A d \in Tasks :
            AttachFailed(d) =>
                /\ pc[d] = "done"
                /\ outcome[d] = "payment-attach-failed"
                /\ CountOp(d, "transitionToState") = 1
                /\ CountOp(d, "addPaymentToOrder") = 1)
    /\ [][\A d \in Tasks :
            (AttachFailed(d)' /\ calls'[d] # calls[d]) => OrdersUnchanged]_vars

C14_Witness ==
    \E d \in Tasks :
        /\ pc[d] = "done"
        /\ AttachFailed(d)
        /\ outcome[d] = "payment-attach-failed"
        /\ orderState[request[d].rawBody.orderId] = "ArrangingPayment"

\* The delivery of task d is signed correctly and carries no payment object.
VerifiedWithoutObject(d) ==
    /\ Holds(d)
    /\ Verifies(request[d].rawBody, request[d].signature)
    /\ ~request[d].rawBody.hasObject

\* C15: a verified event without a payment object is rejected as malformed
\* with status 400 whatever its type (succeeded, payment-failed or any other),
\* and no downstream call is made for it: the test of the object comes before
\* the classification by type.
C15_NoObjectRejectedFirst ==
    \A d \in Tasks :
        VerifiedWithoutObject(d) =>
            /\ pc[d] = "done"
            /\ outcome[d] = "rejected-malformed"
            /\ response[d] = BAD_REQUEST
            /\ Ops(d) \cap Downstream = {}

C15_Witness ==
    \E d, e \in Tasks :
        /\ VerifiedWithoutObject(d) /\ request[d].rawBody.type = PaymentFailedType
        /\ outcome[d] = "rejected-malformed"
        /\ VerifiedWithoutObject(e) /\ request[e].rawBody.type = "charge.refunded"
        /\ outcome[e] = "rejected-malformed"

\* Tasks d and e hold the same verified succeeded delivery and neither had
\* ended when the other began: they were handled concurrently.
Concurrent(d, e) ==
    /\ d # e
    /\ IsSucceeded(d)
    /\ request[e] = request[d]
    /\ d \notin priorDone[e] /\ e \notin priorDone[d]

\* The handler of task d, when it is between two awaits, can take its next
\* step whatever the other tasks are doing.
NotBlocked(d) ==
    pc[d] \in {"createContext", "transitionToState", "getPaymentMethod", "addPaymentToOrder"} =>
        ENABLED (CreateContext(d) \/ TransitionToState(d) \/ GetPaymentMethod(d)
                    \/ AddPaymentToOrder(d))

\* Outcomes with which a delivery can end.
Terminal == NonFatal \cup Errors \cup
            {"rejected-missing-signature", "rejected-bad-signature", "rejected-malformed",
             "ignored-payment-failed", "ignored-event-type"}

\* C16: two concurrent deliveries of the same succeeded event are not held
\* back by one another; with an attach that accepts a payment only when none is
\* recorded for the intent, no order ever holds more than one payment record
\* of an intent, and when both deliveries have ended each has a terminal
\* outcome and at most one of them ended succeeded.
C16_ConcurrentDuplicateSafe ==
    /\ \A d \in Tasks : NotBlocked(d)
    /\ \A o \in OrderIds : \A i \in 1..Len(payments[o]) :
          CountIntent(payments[o], payments[o][i].paymentIntentId) = 1
    /\ \A d, e \in Tasks :
          (Concurrent(d, e) /\ pc[d] = "done" /\ pc[e] = "done") =>
              /\ outcome[d] \in Terminal /\ outcome[e] \in Terminal
              /\ ~(outcome[d] = "succeeded" /\ outcome[e] = "succeeded")

\* Both deliveries have completed the transition and neither has called the
\* attach yet.
C16_Witness ==
    \E d, e \in Tasks :
        /\ Concurrent(d, e)
        /\ pc[d] = "addPaymentToOrder" /\ pc[e] = "addPaymentToOrder"
        /\ \A i \in 1..Len(calls[d]) : calls[d][i].result \in GoOnResults
        /\ \A i \in 1..Len(calls[e]) : calls[e][i].result \in GoOnResults
        /\ "transitionToState" \in Ops(d) /\ "transitionToState" \in Ops(e)

\* The step is a step of the handler of task d past its first await.
PipelineStepOf(d) ==
    /\ pc[d] \in {"createContext", "transitionToState", "getPaymentMethod", "addPaymentToOrder"}
    /\ pc'[d] # pc[d]

\* The step leaves everything the handler of task e holds as it was.
TaskUntouched(e) ==
    /\ pc'[e] = pc[e] /\ request'[e] = request[e] /\ ctx'[e] = ctx[e]
    /\ outcome'[e] = outcome[e] /\ response'[e] = response[e] /\ log'[e] = log[e]
    /\ calls'[e] = calls[e] /\ paymentMethod'[e] = paymentMethod[e]

\* C17: every Order Gateway call of a delivery names the order of its own
\* metadata; a step changes the state or the payments of an order B only when
\* it is a step of a delivery whose metadata names B; and a step of one
\* delivery leaves everything held for the other deliveries as it was.
C17_OrdersIndependent ==
    /\ [](\A d \in Tasks : \A i \in 1..Len(calls[d]) :
            calls[d][i].op \in Mutating => calls[d][i].orderId = request[d].rawBody.orderId)
    /\ [][\A b \in OrderIds :
            (orderState'[b] # orderState[b] \/ payments'[b] # payments[b]) =>
                \E d \in Tasks : PipelineStepOf(d) /\ request[d].rawBody.orderId = b]_vars
    /\ [][\A d \in Tasks :
            PipelineStepOf(d) => \A e \in Tasks \ {d} : TaskUntouched(e)]_vars

\* A delivery for order o1 has ended with its payment attached while a
\* concurrent delivery for order o2 is between its transition and its attach.
C17_Witness ==
    \E d, e \in Tasks :
        /\ request[d].rawBody.orderId = "o1" /\ request[e].rawBody.orderId = "o2"
        /\ e \notin priorDone[d] /\ d \notin priorDone[e]
        /\ pc[d] = "done" /\ outcome[d] = "succeeded"
        /\ pc[e] = "addPaymentToOrder"
        /\ Len(payments["o1"]) = 1 /\ Len(payments["o2"]) = 0
        /\ orderState["o2"] = "ArrangingPayment"

\* The channel has no PaymentMethod whose handler is the Stripe handler.
NoStripeMethod(channel) ==
    \A i \in 1..Len(PaymentMethodsOf(channel)) :
        PaymentMethodsOf(channel)[i].handler # stripeHandlerCode

\* Task d has made the handler lookup in a channel without a Stripe method.
LookupInUnconfiguredChannel(d) == "find" \in Ops(d) /\ NoStripeMethod(ctx[d])

\* C18: when the handler lookup finds no matching payment method, the
\* delivery ends by the error of getPaymentMethod, after a transition that
\* gave back an order; that transition is its only mutating Order Gateway
\* call (no attach, no rollback transition), and the step of the lookup leaves
\* every order as the transition left it.
C18_LookupFailsAfterTransition ==
    /\ [](\A d \in Tasks :
            LookupInUnconfiguredChannel(d) =>
                /\ pc[d] = "done"
                /\ outcome[d] = "InternalServerError"
                /\ OpSeq(d) = << "constructEventFromPayload", "getChannelFromToken",
                                 "transitionToState", "find" >>
                /\ calls[d][3].result = "Order"
                /\ calls[d][3].arg = "ArrangingPayment"
                /\ MutatingSeq(d) = << "transitionToState" >>)
    /\ [][\A d \in Tasks :
            (LookupInUnconfiguredChannel(d)' /\ calls'[d] # calls[d]) => OrdersUnchanged]_vars

C18_Witness ==
    \E d \in Tasks :
        /\ pc[d] = "done"
        /\ LookupInUnconfiguredChannel(d)
        /\ outcome[d] = "InternalServerError"
        /\ orderState[request[d].rawBody.orderId] = "ArrangingPayment"
        /\ payments[request[d].rawBody.orderId] = << >>

\* C19: the only state ever requested from the transition is ArrangingPayment;
\* only deliveries of verified succeeded events call the Order Gateway; a
\* step changes an order's state or payments only when it is a step of such a
\* delivery, and a payment record is added only by the attach step of one,
\* carrying its payment intent id.
C19_OnlySucceededChangesOrders ==
    /\ [](\A d \in Tasks : \A i \in 1..Len(calls[d]) :
            /\ calls[d][i].op = "transitionToState" => calls[d][i].arg = "ArrangingPayment"
            /\ calls[d][i].op \in Mutating => IsSucceeded(d))
    /\ [][\A b \in OrderIds :
            /\ orderState'[b] # orderState[b] =>
                  \E d \in Tasks : PipelineStepOf(d) /\ IsSucceeded(d)
            /\ payments'[b] # payments[b] =>
                  \E d \in Tasks :
                      /\ IsSucceeded(d)
                      /\ pc[d] = "addPaymentToOrder" /\ pc'[d] = "done"
                      /\ Len(payments'[b]) = Len(payments[b]) + 1
                      /\ SubSeq(payments'[b], 1, Len(payments[b])) = payments[b]
                      /\ payments'[b][Len(payments'[b])].paymentIntentId = request[d].rawBody.id]_vars

\* A badly signed delivery and a payment-failed delivery have ended next to an
\* order that holds the payment of a succeeded delivery.
C19_Witness ==
    \E d, e \in Tasks :
        /\ pc[d] = "done" /\ pc[e] = "done"
        /\ outcome[d] = "rejected-bad-signature"
        /\ outcome[e] = "ignored-payment-failed"
        /\ \E o \in OrderIds : Len(payments[o]) = 1 /\ orderState[o] = "PaymentSettled"

====
